---- MODULE Spec2Model ----
(***************************************************************************)
(* Model of the connection pool of improved_db.py (class ImprovedDb).      *)
(*                                                                         *)
(* One main thread constructs the object and runs create_pool(); the       *)
(* workers call pool_get_connection(), pool_put_connection(),              *)
(* execute_query_multiplex() and db_close() concurrently.  self.pool is a  *)
(* queue.Queue(POOL_HARD_LIMIT): every get/put on it is atomic (the queue  *)
(* takes its own mutex), everything between two queue operations is a      *)
(* separate step of the calling thread.                                    *)
(* execute_query() works on a held connection only and is part of         *)
(* QuerySpec; the return statements of both query functions are ShapeSpec. *)
(*                                                                         *)
(* A connection is named <<t, k>>: the k-th connection pymysql.connect()    *)
(* has returned to thread t (0 is the main thread); None is << >>.         *)
(***************************************************************************)
EXTENDS Integers, Sequences, FiniteSets, TLC

\* ---------------------------------------------------------------- constants

\* self.POOL_HARD_LIMIT, the capacity of self.pool.  The source sets it to 100;
\* the code only ever compares it with the length of the queue, and the model
\* explores a queue of this capacity
POOL_HARD_LIMIT == 2

\* values of the constructor argument pool_init_size that are explored: below,
\* at and above the capacity
PoolInitSizes == {0, 1, POOL_HARD_LIMIT, POOL_HARD_LIMIT + 1}

\* the worker threads
Workers == {1, 2}

\* total number of pool_get_connection() calls the workers make
MaxCalls == 2

\* largest retry_num a worker passes to pool_get_connection()
MaxRetry == 1

\* how cur.execute() / cur.executemany() can end
Outcomes == {"ok", "statement_error", "other_error"}

None == << >>

\* the rows a statement can give, and the longest result of cur.fetchall()
Rows == {"r1", "r2"}
MaxRows == 3
\* what cur.fetchall() can return: every sequence of at most MaxRows rows
FetchAll == UNION {[1..n -> Rows] : n \in 0..MaxRows}

\* the values execute_query / execute_query_multiplex return: Python's None, one
\* row, or a sequence of rows; NotReturned before the return statement
NotReturned == [kind |-> "pending"]
NoneValue == [kind |-> "None"]
RowValue(r) == [kind |-> "row", row |-> r]
RowsValue(rs) == [kind |-> "rows", rows |-> rs]

VARIABLES
    pool,            \* self.pool: the queue's contents, head first
    pool_init_size,  \* self.pool_init_size
    dropped,         \* connections pool_put_connection could not insert
    closed,          \* connections on which close() has been called
    mpc,             \* main thread: position in create_pool()
    mi,              \* main thread: loop variable i of create_pool()
    mconn,           \* main thread: local conn of create_pool()
    mfcalls,         \* main thread: number of self.connect() invocations of create_pool()
    pc,              \* worker: position
    conn,            \* worker: the connection it has in hand (local conn / connection)
    retry_num,       \* worker: retry_num of the running pool_get_connection frame
    result,          \* worker: how its pool_get_connection call ended
    cursor_open,     \* worker: the cursor it opened on its connection is open
    mx_result,       \* worker: how its execute_query_multiplex call ended
    mx_puts,         \* worker: pool_put_connection calls of its execute_query_multiplex call
    eq_result,       \* worker: how the statement of its execute_query call ended
    calls,           \* number of pool_get_connection() calls made so far
    \* history of each worker's running pool_get_connection call
    retries0,        \* the retry_num the caller passed
    waits,           \* number of self.pool.get(timeout=timeout) waits
    fcalls,          \* number of self.connect(recreate=True) invocations
    ferrs,           \* number of those invocations that raised
    puts,            \* number of connections the call inserted into the pool
    startEmpty,      \* the pool was empty when the call started
    alone,           \* no other thread has operated on the pool during the call
    \* the return statement of one execute_query / execute_query_multiplex call
    query_fn,        \* which of the two functions is returning
    res,             \* res = cur.fetchall()
    return_one,      \* the argument return_one
    returned         \* the value the function returned

hist == <<retries0, waits, fcalls, ferrs, puts, startEmpty>>
wvars == <<pc, conn, retry_num, result, cursor_open, mx_result, mx_puts, eq_result, calls>>
mvars == <<mpc, mi, mconn, mfcalls>>
qvars == <<query_fn, res, return_one, returned>>
pvars == <<pool, pool_init_size, dropped, closed, mvars, wvars, hist, alone>>
vars == <<pvars, qvars>>

\* ------------------------------------------------------------------ helpers

Range(s) == {s[k] : k \in 1..Len(s)}

\* positions of a worker inside pool_get_connection ("ret": the call has ended
\* and the caller is about to receive its outcome)
InCallPcs == {"get", "connect", "put_new"}

\* a worker owns conn[w] when pool_get_connection has returned it and the worker
\* has not handed it back: it is between calls, or inside execute_query, or
\* inside execute_query_multiplex before that call's pool_put_connection, or
\* execute_query_multiplex has ended with an error that made no release
Held(w) ==
    \/ pc[w] \in {"hold", "mx_put", "mx_err_put", "eq_with", "eq_ret"}
    \/ pc[w] = "ret" /\ result[w] = "conn"
    \/ pc[w] = "mx_ret" /\ mx_result[w] = "other_error"

\* every connection pymysql.connect() has returned so far
Created ==
    (Range(pool) \cup {conn[w] : w \in Workers} \cup {mconn} \cup closed \cup dropped)
        \ {None}

\* pymysql.connect() returns a connection object that did not exist before
NewConnection(t) == <<t, Cardinality({c \in Created : c[1] = t}) + 1>>

\* mutant: get hands out the head and leaves it in the queue
queue_get_keep(q) == q

\* queue.Queue.get: the queue without its head, which the caller receives
queue_get(q) == Tail(q)

\* mutant: the put ignores the capacity
pool_put_connection_unbounded(q, c) == Append(q, c)

\* mutant: a put on a full queue evicts the oldest connection
pool_put_connection_evict(q, c) ==
    IF Len(q) < POOL_HARD_LIMIT THEN Append(q, c) ELSE Append(Tail(q), c)

\* mutant: the put never inserts
pool_put_connection_lost(q, c) == q

\* a pool that hands out the connection inserted last (queue.LifoQueue)
pool_put_connection_front(q, c) ==
    IF Len(q) < POOL_HARD_LIMIT THEN <<c>> \o q ELSE q

\* queue.Queue.put_nowait inside try/except queue.Full: the connection is
\* appended when there is room, and otherwise only a warning is logged
pool_put_connection(q, c) ==
    IF Len(q) < POOL_HARD_LIMIT THEN Append(q, c) ELSE q

\* what the except queue.Full branch leaves behind: the connection is neither
\* inserted nor closed
put_dropped(q, c) ==
    IF Len(q) < POOL_HARD_LIMIT THEN dropped ELSE dropped \cup {c}

\* mutant: the recursive call gets retry_num unchanged
next_retry_num_same(r) == r

\* the retry_num of the recursive call
next_retry_num(r) == r - 1

\* a pool operation by thread t is seen by every other worker that is inside
\* pool_get_connection (t = 0 is the main thread)
Disturb(t) ==
    [w \in Workers |-> IF w # t /\ pc[w] \in InCallPcs THEN FALSE ELSE alone[w]]

\* --------------------------------------------------------------------- Init

\* return (res[0] if res else None) if return_one else res, with res[0] taken
\* from the wrong end
execute_query_result_last(rs, one) ==
    IF one
    THEN (IF rs # << >> THEN RowValue(rs[Len(rs)]) ELSE NoneValue)
    ELSE RowsValue(rs)

\* execute_query: return (res[0] if res else None) if return_one else res
execute_query_result(rs, one) ==
    IF one
    THEN (IF rs # << >> THEN RowValue(rs[1]) ELSE NoneValue)
    ELSE RowsValue(rs)

\* execute_query_multiplex: return (res[0] if res else None) if return_one else res
execute_query_multiplex_result(rs, one) ==
    IF one
    THEN (IF rs # << >> THEN RowValue(rs[1]) ELSE NoneValue)
    ELSE RowsValue(rs)

\* --------------------------------------------------------------------- Init

\* the state after ImprovedDb(db_config, pool=True, pool_init_size=n)
InitPool ==
    /\ pool = << >>
    /\ pool_init_size \in PoolInitSizes
    /\ dropped = {}
    /\ closed = {}
    /\ mpc = "loop"
    /\ mi = 0
    /\ mconn = None
    /\ mfcalls = 0
    /\ pc = [w \in Workers |-> "idle"]
    /\ conn = [w \in Workers |-> None]
    /\ retry_num = [w \in Workers |-> 0]
    /\ result = [w \in Workers |-> "none"]
    /\ cursor_open = [w \in Workers |-> FALSE]
    /\ mx_result = [w \in Workers |-> "none"]
    /\ mx_puts = [w \in Workers |-> 0]
    /\ eq_result = [w \in Workers |-> "none"]
    /\ calls = 0
    /\ retries0 = [w \in Workers |-> 0]
    /\ waits = [w \in Workers |-> 0]
    /\ fcalls = [w \in Workers |-> 0]
    /\ ferrs = [w \in Workers |-> 0]
    /\ puts = [w \in Workers |-> 0]
    /\ startEmpty = [w \in Workers |-> FALSE]
    /\ alone = [w \in Workers |-> TRUE]

\* the pool with no statement returning
Init ==
    /\ InitPool
    /\ query_fn = "none"
    /\ res = << >>
    /\ return_one = FALSE
    /\ returned = NotReturned

\* a statement has run and cur.fetchall() has given res: one of the two
\* functions is about to return, for every res and both values of return_one
ShapeInit ==
    /\ InitPool
    /\ query_fn \in {"execute_query", "execute_query_multiplex"}
    /\ res \in FetchAll
    /\ return_one \in BOOLEAN
    /\ returned = NotReturned

\* -------------------------------------------------------------- create_pool

\* for i in range(self.pool_init_size): conn = self.connect() returns a new
\* connection
create_pool_connect ==
    /\ mpc = "loop"
    /\ mi < pool_init_size
    /\ mconn' = NewConnection(0)
    /\ mfcalls' = mfcalls + 1
    /\ mpc' = "put"
    /\ UNCHANGED <<pool, pool_init_size, qvars, dropped, closed, mi, wvars, hist, alone>>

\* a create_pool() that catches the error of self.connect() and goes on with
\* the next i
create_pool_connect_error_skipped ==
    /\ mpc = "loop"
    /\ mi < pool_init_size
    /\ mfcalls' = mfcalls + 1
    /\ mi' = mi + 1
    /\ UNCHANGED <<pool, pool_init_size, qvars, dropped, closed, mpc, mconn, wvars, hist, alone>>

\* conn = self.connect(): pymysql.connect() raises, connect() logs and re-raises,
\* create_pool() does not catch
create_pool_connect_error ==
    /\ mpc = "loop"
    /\ mi < pool_init_size
    /\ mfcalls' = mfcalls + 1
    /\ mpc' = "raised"
    /\ UNCHANGED <<pool, pool_init_size, qvars, dropped, closed, mi, mconn, wvars, hist, alone>>

\* self.pool.put(conn): the blocking put, which waits while the queue is full
create_pool_put ==
    /\ mpc = "put"
    /\ Len(pool) < POOL_HARD_LIMIT
    /\ pool' = Append(pool, mconn)
    /\ mconn' = None
    /\ mi' = mi + 1
    /\ mpc' = "loop"
    /\ alone' = Disturb(0)
    /\ UNCHANGED <<pool_init_size, qvars, dropped, closed, mfcalls, wvars, hist>>

\* the range is exhausted: create_pool() returns
create_pool_return ==
    /\ mpc = "loop"
    /\ mi = pool_init_size
    /\ mpc' = "done"
    /\ UNCHANGED <<pool, pool_init_size, qvars, dropped, closed, mi, mconn, mfcalls, wvars, hist, alone>>

create_pool ==
    \/ create_pool_connect
    \/ create_pool_connect_error
    \/ create_pool_put
    \/ create_pool_return

\* ------------------------------------------------------ pool_get_connection

\* a worker calls pool_get_connection(timeout, retry_num = r)
pool_get_connection_call(w, r) ==
    /\ pc[w] = "idle"
    /\ calls < MaxCalls
    /\ calls' = calls + 1
    /\ pc' = [pc EXCEPT ![w] = "get"]
    /\ retry_num' = [retry_num EXCEPT ![w] = r]
    /\ retries0' = [retries0 EXCEPT ![w] = r]
    /\ startEmpty' = [startEmpty EXCEPT ![w] = (pool = << >>)]
    /\ UNCHANGED <<pool, pool_init_size, qvars, dropped, closed, mvars>>
    /\ UNCHANGED <<conn, result, cursor_open, mx_result, mx_puts, eq_result>>
    /\ UNCHANGED <<waits, fcalls, ferrs, puts, alone>>

\* conn = self.pool.get(timeout=timeout) finds a connection; return conn
pool_get(w) ==
    /\ pc[w] = "get"
    /\ pool # << >>
    /\ conn' = [conn EXCEPT ![w] = Head(pool)]
    /\ pool' = queue_get(pool)
    /\ pc' = [pc EXCEPT ![w] = "ret"]
    /\ result' = [result EXCEPT ![w] = "conn"]
    /\ waits' = [waits EXCEPT ![w] = @ + 1]
    /\ alone' = Disturb(w)
    /\ UNCHANGED <<pool_init_size, qvars, dropped, closed, mvars>>
    /\ UNCHANGED <<retry_num, cursor_open, mx_result, mx_puts, eq_result, calls>>
    /\ UNCHANGED <<retries0, fcalls, ferrs, puts, startEmpty>>

\* self.pool.get(timeout=timeout) raises queue.Empty: the queue is empty when
\* the wait ends
pool_get_timeout(w) ==
    /\ pc[w] = "get"
    /\ pool = << >>
    /\ pc' = [pc EXCEPT ![w] = "connect"]
    /\ waits' = [waits EXCEPT ![w] = @ + 1]
    /\ UNCHANGED <<pool, pool_init_size, qvars, dropped, closed, mvars>>
    /\ UNCHANGED <<conn, retry_num, result, cursor_open, mx_result, mx_puts, eq_result, calls>>
    /\ UNCHANGED <<retries0, fcalls, ferrs, puts, startEmpty, alone>>

\* conn = self.connect(recreate=True) returns a new connection
connect_recreate(w) ==
    /\ pc[w] = "connect"
    /\ conn' = [conn EXCEPT ![w] = NewConnection(w)]
    /\ fcalls' = [fcalls EXCEPT ![w] = @ + 1]
    /\ pc' = [pc EXCEPT ![w] = "put_new"]
    /\ UNCHANGED <<pool, pool_init_size, qvars, dropped, closed, mvars>>
    /\ UNCHANGED <<retry_num, result, cursor_open, mx_result, mx_puts, eq_result, calls>>
    /\ UNCHANGED <<retries0, waits, ferrs, puts, startEmpty, alone>>

\* mutant: the connection error is swallowed and None is returned
connect_recreate_error_swallowed(w) ==
    /\ pc[w] = "connect"
    /\ fcalls' = [fcalls EXCEPT ![w] = @ + 1]
    /\ ferrs' = [ferrs EXCEPT ![w] = @ + 1]
    /\ pc' = [pc EXCEPT ![w] = "ret"]
    /\ result' = [result EXCEPT ![w] = "exhausted"]
    /\ UNCHANGED <<pool, pool_init_size, qvars, dropped, closed, mvars>>
    /\ UNCHANGED <<conn, retry_num, cursor_open, mx_result, mx_puts, eq_result, calls>>
    /\ UNCHANGED <<retries0, waits, puts, startEmpty, alone>>

\* mutant: after a connection error the call goes on to its retry
connect_recreate_error_retry(w) ==
    /\ pc[w] = "connect"
    /\ fcalls' = [fcalls EXCEPT ![w] = @ + 1]
    /\ ferrs' = [ferrs EXCEPT ![w] = @ + 1]
    /\ IF retry_num[w] > 0
         THEN /\ pc' = [pc EXCEPT ![w] = "get"]
              /\ retry_num' = [retry_num EXCEPT ![w] = @ - 1]
              /\ result' = result
         ELSE /\ pc' = [pc EXCEPT ![w] = "ret"]
              /\ retry_num' = retry_num
              /\ result' = [result EXCEPT ![w] = "raised"]
    /\ UNCHANGED <<pool, pool_init_size, qvars, dropped, closed, mvars>>
    /\ UNCHANGED <<conn, cursor_open, mx_result, mx_puts, eq_result, calls>>
    /\ UNCHANGED <<retries0, waits, puts, startEmpty, alone>>

\* self.connect(recreate=True) raises: connect() logs and re-raises, and the
\* error leaves pool_get_connection
connect_recreate_error(w) ==
    /\ pc[w] = "connect"
    /\ fcalls' = [fcalls EXCEPT ![w] = @ + 1]
    /\ ferrs' = [ferrs EXCEPT ![w] = @ + 1]
    /\ pc' = [pc EXCEPT ![w] = "ret"]
    /\ result' = [result EXCEPT ![w] = "raised"]
    /\ UNCHANGED <<pool, pool_init_size, qvars, dropped, closed, mvars>>
    /\ UNCHANGED <<conn, retry_num, cursor_open, mx_result, mx_puts, eq_result, calls>>
    /\ UNCHANGED <<retries0, waits, puts, startEmpty, alone>>

\* a pool_get_connection that returns the connection it has just created
\* instead of putting it into the pool
pool_put_new_direct(w) ==
    /\ pc[w] = "put_new"
    /\ pc' = [pc EXCEPT ![w] = "ret"]
    /\ result' = [result EXCEPT ![w] = "conn"]
    /\ UNCHANGED <<pool, pool_init_size, qvars, dropped, closed, mvars, alone>>
    /\ UNCHANGED <<conn, retry_num, cursor_open, mx_result, mx_puts, eq_result, calls>>
    /\ UNCHANGED <<retries0, waits, fcalls, ferrs, puts, startEmpty>>

\* self.pool_put_connection(conn, conn_type='new'), then
\* if retry_num > 0: return self.pool_get_connection(timeout, retry_num-1)
\* and otherwise the function ends, which returns None
pool_put_new(w) ==
    /\ pc[w] = "put_new"
    /\ pool' = pool_put_connection(pool, conn[w])
    /\ dropped' = put_dropped(pool, conn[w])
    /\ puts' = [puts EXCEPT ![w] = IF pool' # pool THEN @ + 1 ELSE @]
    /\ conn' = [conn EXCEPT ![w] = None]
    /\ IF retry_num[w] > 0
         THEN /\ pc' = [pc EXCEPT ![w] = "get"]
              /\ retry_num' = [retry_num EXCEPT ![w] = next_retry_num(@)]
              /\ result' = result
         ELSE /\ pc' = [pc EXCEPT ![w] = "ret"]
              /\ retry_num' = retry_num
              /\ result' = [result EXCEPT ![w] = "exhausted"]
    /\ alone' = Disturb(w)
    /\ UNCHANGED <<pool_init_size, qvars, closed, mvars>>
    /\ UNCHANGED <<cursor_open, mx_result, mx_puts, eq_result, calls>>
    /\ UNCHANGED <<retries0, waits, fcalls, ferrs, startEmpty>>

\* the call is over: the caller has the connection, None or the error
pool_get_connection_return(w) ==
    /\ pc[w] = "ret"
    /\ pc' = [pc EXCEPT ![w] = IF result[w] = "conn" THEN "hold" ELSE "idle"]
    /\ result' = [result EXCEPT ![w] = "none"]
    /\ retry_num' = [retry_num EXCEPT ![w] = 0]
    /\ retries0' = [retries0 EXCEPT ![w] = 0]
    /\ waits' = [waits EXCEPT ![w] = 0]
    /\ fcalls' = [fcalls EXCEPT ![w] = 0]
    /\ ferrs' = [ferrs EXCEPT ![w] = 0]
    /\ puts' = [puts EXCEPT ![w] = 0]
    /\ startEmpty' = [startEmpty EXCEPT ![w] = FALSE]
    /\ alone' = [alone EXCEPT ![w] = TRUE]
    /\ UNCHANGED <<pool, pool_init_size, qvars, dropped, closed, mvars>>
    /\ UNCHANGED <<conn, cursor_open, mx_result, mx_puts, eq_result, calls>>

\* ------------------------------------------------------ pool_put_connection

\* the worker calls self.pool_put_connection(connection) on the connection it holds
release(w) ==
    /\ pc[w] = "hold"
    /\ pool' = pool_put_connection(pool, conn[w])
    /\ dropped' = put_dropped(pool, conn[w])
    /\ conn' = [conn EXCEPT ![w] = None]
    /\ pc' = [pc EXCEPT ![w] = "idle"]
    /\ alone' = Disturb(w)
    /\ UNCHANGED <<pool_init_size, qvars, closed, mvars, hist>>
    /\ UNCHANGED <<retry_num, result, cursor_open, mx_result, mx_puts, eq_result, calls>>

\* ----------------------------------------------------------------- db_close

\* the worker calls ImprovedDb.db_close(connection) and forgets the connection
db_close(w) ==
    /\ pc[w] = "hold"
    /\ closed' = closed \cup {conn[w]}
    /\ conn' = [conn EXCEPT ![w] = None]
    /\ pc' = [pc EXCEPT ![w] = "idle"]
    /\ UNCHANGED <<pool, pool_init_size, qvars, dropped, mvars, hist, alone>>
    /\ UNCHANGED <<retry_num, result, cursor_open, mx_result, mx_puts, eq_result, calls>>

\* -------------------------------------------------- execute_query_multiplex

\* an execute_query_multiplex whose first except clause does not call
\* cur.close() before self.pool_put_connection(connection)
mx_execute_unclosed(w, o) ==
    /\ pc[w] = "hold"
    /\ pc' = [pc EXCEPT ![w] = CASE o = "ok" -> "mx_put"
                                 [] o = "statement_error" -> "mx_err_put"
                                 [] OTHER -> "mx_ret"]
    /\ cursor_open' = [cursor_open EXCEPT ![w] = (o # "other_error")]
    /\ mx_result' = [mx_result EXCEPT ![w] = IF o = "other_error" THEN o ELSE @]
    /\ UNCHANGED <<pool, pool_init_size, qvars, dropped, closed, mvars, hist, alone>>
    /\ UNCHANGED <<conn, retry_num, result, mx_puts, eq_result, calls>>

\* an execute_query_multiplex that releases the connection on an error of
\* every class
mx_execute_release_any(w, o) ==
    /\ pc[w] = "hold"
    /\ pc' = [pc EXCEPT ![w] = CASE o = "ok" -> "mx_put"
                                 [] o = "statement_error" -> "mx_err_put"
                                 [] OTHER -> "mx_ret"]
    /\ cursor_open' = [cursor_open EXCEPT ![w] = (o = "ok")]
    /\ mx_result' = [mx_result EXCEPT ![w] = IF o = "other_error" THEN o ELSE @]
    /\ pool' = IF o = "other_error" THEN pool_put_connection(pool, conn[w]) ELSE pool
    /\ dropped' = IF o = "other_error" THEN put_dropped(pool, conn[w]) ELSE dropped
    /\ UNCHANGED <<pool_init_size, qvars, closed, mvars, hist, alone>>
    /\ UNCHANGED <<conn, retry_num, result, mx_puts, eq_result, calls>>

\* the worker calls execute_query_multiplex(connection, query) on the connection
\* it holds: the cursor is opened and cur.execute(query, args) or
\* cur.executemany(query, args) ends with outcome o:
\*   ok:              res = cur.fetchall()
\*   statement_error: the first except clause: cur.close()
\*   other_error:     except Exception: raise; the with block closes the cursor
\*                    and the error reaches the caller, who still has the connection
mx_execute(w, o) ==
    /\ pc[w] = "hold"
    /\ pc' = [pc EXCEPT ![w] = CASE o = "ok" -> "mx_put"
                                 [] o = "statement_error" -> "mx_err_put"
                                 [] OTHER -> "mx_ret"]
    /\ cursor_open' = [cursor_open EXCEPT ![w] = (o = "ok")]
    /\ mx_result' = [mx_result EXCEPT ![w] = IF o = "other_error" THEN o ELSE @]
    /\ UNCHANGED <<pool, pool_init_size, qvars, dropped, closed, mvars, hist, alone>>
    /\ UNCHANGED <<conn, retry_num, result, mx_puts, eq_result, calls>>

\* the success path: self.pool_put_connection(connection), still inside the
\* with block
mx_put(w) ==
    /\ pc[w] = "mx_put"
    /\ pool' = pool_put_connection(pool, conn[w])
    /\ dropped' = put_dropped(pool, conn[w])
    /\ mx_puts' = [mx_puts EXCEPT ![w] = @ + 1]
    /\ pc' = [pc EXCEPT ![w] = "mx_exit"]
    /\ alone' = Disturb(w)
    /\ UNCHANGED <<pool_init_size, qvars, closed, mvars, hist>>
    /\ UNCHANGED <<conn, retry_num, result, cursor_open, mx_result, eq_result, calls>>

\* an execute_query_multiplex that releases the connection once more when the
\* with block ends
mx_exit_put_again(w) ==
    /\ pc[w] = "mx_exit"
    /\ cursor_open' = [cursor_open EXCEPT ![w] = FALSE]
    /\ mx_result' = [mx_result EXCEPT ![w] = "ok"]
    /\ pool' = pool_put_connection(pool, conn[w])
    /\ dropped' = put_dropped(pool, conn[w])
    /\ mx_puts' = [mx_puts EXCEPT ![w] = @ + 1]
    /\ pc' = [pc EXCEPT ![w] = "mx_ret"]
    /\ UNCHANGED <<pool_init_size, qvars, closed, mvars, hist, alone>>
    /\ UNCHANGED <<conn, retry_num, result, eq_result, calls>>

\* the success path: the with block ends, which closes the cursor (cur.close()
\* reads the cursor's connection); return res
mx_exit(w) ==
    /\ pc[w] = "mx_exit"
    /\ cursor_open' = [cursor_open EXCEPT ![w] = FALSE]
    /\ mx_result' = [mx_result EXCEPT ![w] = "ok"]
    /\ pc' = [pc EXCEPT ![w] = "mx_ret"]
    /\ UNCHANGED <<pool, pool_init_size, qvars, dropped, closed, mvars, hist, alone>>
    /\ UNCHANGED <<conn, retry_num, result, mx_puts, eq_result, calls>>

\* mutant: the statement-error path closes the connection and does not insert it
mx_err_put_discard(w) ==
    /\ pc[w] = "mx_err_put"
    /\ closed' = closed \cup {conn[w]}
    /\ mx_result' = [mx_result EXCEPT ![w] = "statement_error"]
    /\ pc' = [pc EXCEPT ![w] = "mx_ret"]
    /\ UNCHANGED <<pool, pool_init_size, qvars, dropped, mvars, hist, alone>>
    /\ UNCHANGED <<conn, retry_num, result, cursor_open, mx_puts, eq_result, calls>>

\* the statement-error path: self.pool_put_connection(connection) after
\* cur.close(), then raise: the with block closes the already closed cursor (a
\* no-op) and the error leaves execute_query_multiplex
mx_err_put(w) ==
    /\ pc[w] = "mx_err_put"
    /\ pool' = pool_put_connection(pool, conn[w])
    /\ dropped' = put_dropped(pool, conn[w])
    /\ mx_result' = [mx_result EXCEPT ![w] = "statement_error"]
    /\ mx_puts' = [mx_puts EXCEPT ![w] = @ + 1]
    /\ pc' = [pc EXCEPT ![w] = "mx_ret"]
    /\ alone' = Disturb(w)
    /\ UNCHANGED <<pool_init_size, qvars, closed, mvars, hist>>
    /\ UNCHANGED <<conn, retry_num, result, cursor_open, eq_result, calls>>

\* the call is over: the caller has the result or the error; after an error of
\* another class it still holds the connection
mx_return(w) ==
    /\ pc[w] = "mx_ret"
    /\ pc' = [pc EXCEPT ![w] = IF mx_result[w] = "other_error" THEN "hold" ELSE "idle"]
    /\ conn' = [conn EXCEPT ![w] = IF mx_result[w] = "other_error" THEN @ ELSE None]
    /\ mx_result' = [mx_result EXCEPT ![w] = "none"]
    /\ mx_puts' = [mx_puts EXCEPT ![w] = 0]
    /\ UNCHANGED <<pool, pool_init_size, qvars, dropped, closed, mvars, hist, alone>>
    /\ UNCHANGED <<retry_num, result, cursor_open, eq_result, calls>>

\* ------------------------------------------------------------ execute_query

\* the worker calls ImprovedDb.execute_query(connection, query) on the connection
\* it holds: the cursor is opened and cur.execute(query, args) or
\* cur.executemany(query, args) ends with outcome o; on ok res = cur.fetchall(),
\* on an error of any class except Exception: raise. Either way the with
\* block is still to be left.
eq_execute(w, o) ==
    /\ pc[w] = "hold"
    /\ pc' = [pc EXCEPT ![w] = "eq_with"]
    /\ cursor_open' = [cursor_open EXCEPT ![w] = TRUE]
    /\ eq_result' = [eq_result EXCEPT ![w] = o]
    /\ UNCHANGED <<pool, pool_init_size, qvars, dropped, closed, mvars, hist, alone>>
    /\ UNCHANGED <<conn, retry_num, result, mx_result, mx_puts, calls>>

\* an execute_query without the with statement: the cursor is closed only
\* when the statement gave a result
eq_exit_leak(w) ==
    /\ pc[w] = "eq_with"
    /\ cursor_open' = [cursor_open EXCEPT ![w] = (eq_result[w] # "ok")]
    /\ pc' = [pc EXCEPT ![w] = "eq_ret"]
    /\ UNCHANGED <<pool, pool_init_size, qvars, dropped, closed, mvars, hist, alone>>
    /\ UNCHANGED <<conn, retry_num, result, mx_result, mx_puts, eq_result, calls>>

\* the with block is left, by the return or by the error: the cursor is closed
eq_exit(w) ==
    /\ pc[w] = "eq_with"
    /\ cursor_open' = [cursor_open EXCEPT ![w] = FALSE]
    /\ pc' = [pc EXCEPT ![w] = "eq_ret"]
    /\ UNCHANGED <<pool, pool_init_size, qvars, dropped, closed, mvars, hist, alone>>
    /\ UNCHANGED <<conn, retry_num, result, mx_result, mx_puts, eq_result, calls>>

\* the call is over: the caller has the result or the error, and still holds
\* the connection
eq_return(w) ==
    /\ pc[w] = "eq_ret"
    /\ pc' = [pc EXCEPT ![w] = "hold"]
    /\ eq_result' = [eq_result EXCEPT ![w] = "none"]
    /\ UNCHANGED <<pool, pool_init_size, qvars, dropped, closed, mvars, hist, alone>>
    /\ UNCHANGED <<conn, retry_num, result, cursor_open, mx_result, mx_puts, calls>>

\* --------------------------------------------------------------------- Next

\* the steps of worker w inside pool_get_connection
pool_get_connection(w) ==
    \/ pool_get(w)
    \/ pool_get_timeout(w)
    \/ connect_recreate(w)
    \/ connect_recreate_error(w)
    \/ pool_put_new(w)
    \/ pool_get_connection_return(w)

\* the steps of worker w inside execute_query_multiplex
execute_query_multiplex(w) ==
    \/ \E o \in Outcomes : mx_execute(w, o)
    \/ mx_put(w)
    \/ mx_exit(w)
    \/ mx_err_put(w)
    \/ mx_return(w)

\* the steps of worker w inside execute_query
execute_query(w) ==
    \/ \E o \in Outcomes : eq_execute(w, o)
    \/ eq_exit(w)
    \/ eq_return(w)

Next ==
    \/ create_pool
    \/ \E w \in Workers :
         \/ \E r \in 0..MaxRetry : pool_get_connection_call(w, r)
         \/ pool_get_connection(w)
         \/ release(w)
         \/ db_close(w)
         \/ execute_query_multiplex(w)

Spec == Init /\ [][Next]_vars

\* every wait on the queue ends (with a connection or at the timeout) and every
\* pymysql.connect() ends: a worker inside pool_get_connection keeps running
FairSpec == Spec /\ \A w \in Workers : WF_vars(pool_get_connection(w))

\* the pool together with the workers' execute_query calls on the connections
\* they hold (execute_query is static and touches no pool state)
QueryNext ==
    \/ Next
    \/ \E w \in Workers : execute_query(w)

QuerySpec == Init /\ [][QueryNext]_vars

\* ------------------------------------------------- the return statements

\* execute_query, line 72
execute_query_return ==
    /\ query_fn = "execute_query"
    /\ returned = NotReturned
    /\ returned' = execute_query_result(res, return_one)
    /\ UNCHANGED <<query_fn, res, return_one, pvars>>

\* execute_query_multiplex, line 103
execute_query_multiplex_return ==
    /\ query_fn = "execute_query_multiplex"
    /\ returned = NotReturned
    /\ returned' = execute_query_multiplex_result(res, return_one)
    /\ UNCHANGED <<query_fn, res, return_one, pvars>>

ShapeNext ==
    \/ execute_query_return
    \/ execute_query_multiplex_return

ShapeSpec == ShapeInit /\ [][ShapeNext]_vars

\* =================================================================== claims

\* C1: the pool never holds more than POOL_HARD_LIMIT connections, whatever the
\* interleaving of create_pool, pool_get_connection (with its replenishment
\* put), pool_put_connection and execute_query_multiplex.
C1_Capacity == Len(pool) <= POOL_HARD_LIMIT

\* C1 witness: the pool is full and a put has been refused.
C1_Witness == Len(pool) = POOL_HARD_LIMIT /\ dropped # {}

\* C2: a connection a worker holds is not in the pool and is not held by
\* another worker.
C2_NoDoubleOwnership ==
    \A w \in Workers :
        Held(w) =>
            /\ conn[w] \notin Range(pool)
            /\ \A v \in Workers \ {w} : Held(v) => conn[v] # conn[w]

\* C2 witness: both workers hold a connection, and one of them holds a
\* connection the other worker created and put into the pool.
C2_Witness ==
    \E w \in Workers : \E v \in Workers \ {w} :
        Held(w) /\ Held(v) /\ conn[w][1] = v

\* C3: while a worker still has an open cursor on a connection (it has yet to
\* close it), the connection is not in the pool and no other worker holds it:
\* the cursor is closed before the connection is inserted.
C3_NoUseAfterInsert ==
    \A w \in Workers :
        cursor_open[w] =>
            /\ conn[w] \notin Range(pool)
            /\ \A v \in Workers \ {w} : ~(Held(v) /\ conn[v] = conn[w])

C5_NoUntracked ==
    \A c \in Created :
        \/ c \in Range(pool)
        \/ c \in closed
        \/ c = mconn
        \/ \E w \in Workers : conn[w] = c /\ (Held(w) \/ pc[w] = "put_new")

\* C6: pool_put_connection on a full pool never blocks (the worker's put is
\* enabled whatever the pool holds), the call ends normally and the pool is
\* left as it was: same size, same members, same order.
C6_FullReleaseNoOp ==
    /\ [](\A w \in Workers :
            /\ pc[w] = "hold" => ENABLED release(w)
            /\ pc[w] = "mx_put" => ENABLED mx_put(w)
            /\ pc[w] = "mx_err_put" => ENABLED mx_err_put(w))
    /\ [][\A w \in Workers :
            (Len(pool) = POOL_HARD_LIMIT /\ (release(w) \/ mx_put(w) \/ mx_err_put(w))) =>
                /\ pool' = pool
                /\ pc'[w] \in {"idle", "mx_exit", "mx_ret"}]_vars

\* C6 witness: the pool is full and has refused a connection that create_pool
\* made, which only a worker handing it back can have offered.
C6_Witness ==
    /\ Len(pool) = POOL_HARD_LIMIT
    /\ \E c \in dropped : c[1] = 0

\* C7 as claimed: a call with retry_num = 1 that started on an empty pool, whose
\* first wait found the pool still empty (so that it went on to connect()) and
\* whose connect() never failed, ends with a connection after exactly one
\* connect(), whatever the other threads do meanwhile.
C7_Original ==
    \A w \in Workers :
        (/\ pc[w] = "ret" /\ startEmpty[w] /\ retries0[w] = 1
         /\ fcalls[w] >= 1 /\ ferrs[w] = 0) =>
            (result[w] = "conn" /\ fcalls[w] = 1)

\* C7 as amended: the same, for a call during which no other thread operated on
\* the pool.
C7_ReplenishAlone ==
    \A w \in Workers :
        (pc[w] = "ret" /\ startEmpty[w] /\ retries0[w] = 1 /\ ferrs[w] = 0 /\ alone[w]) =>
            (result[w] = "conn" /\ fcalls[w] = 1)

\* C7 witness: such an undisturbed call has ended.
C7_Witness ==
    \E w \in Workers :
        /\ pc[w] = "ret" /\ startEmpty[w] /\ retries0[w] = 1 /\ ferrs[w] = 0
        /\ alone[w] /\ result[w] = "conn" /\ fcalls[w] = 1 /\ waits[w] = 2

\* C8 as claimed: a call with retry_num = 0 that started on an empty pool and
\* whose connect() failed ends with the exhaustion signal (None) after one wait.
C8_Original ==
    \A w \in Workers :
        (pc[w] = "ret" /\ startEmpty[w] /\ retries0[w] = 0 /\ ferrs[w] > 0) =>
            (result[w] = "exhausted" /\ waits[w] = 1)

\* C8 as amended: such a call ends by raising the connection error after one
\* wait, and has inserted nothing.
C8_NoFactoryRaises ==
    \A w \in Workers :
        (pc[w] = "ret" /\ startEmpty[w] /\ retries0[w] = 0 /\ ferrs[w] > 0) =>
            (result[w] = "raised" /\ waits[w] = 1 /\ puts[w] = 0)

\* C8 witness: such a call has ended.
C8_Witness ==
    \E w \in Workers :
        pc[w] = "ret" /\ startEmpty[w] /\ retries0[w] = 0 /\ ferrs[w] > 0

\* C9: once connect(recreate=True) has failed in a call, the call is over and
\* raises: one failure, no wait after it (every wait of the call was followed by
\* one connect), and the failed attempt inserted nothing.
C9_FactoryErrorPropagates ==
    \A w \in Workers :
        ferrs[w] > 0 =>
            /\ pc[w] = "ret"
            /\ result[w] = "raised"
            /\ ferrs[w] = 1
            /\ waits[w] = fcalls[w]
            /\ puts[w] < fcalls[w]

\* C9 witness: a call has raised the connection error with a retry left.
C9_Witness ==
    \E w \in Workers : ferrs[w] > 0 /\ retry_num[w] > 0

\* C10: a call never waits on the pool more than retry_num + 1 times, and every
\* call ends (with a connection, None or the connection error).
C10_AcquireTerminates ==
    /\ [](\A w \in Workers : waits[w] <= retries0[w] + 1)
    /\ \A w \in Workers : (pc[w] \in InCallPcs) ~> (pc[w] = "ret")

\* C10 witness: a call has ended after retry_num + 1 waits, the most the
\* caller's retry_num allows.
C10_Witness ==
    \E w \in Workers :
        pc[w] = "ret" /\ retries0[w] = MaxRetry /\ waits[w] = retries0[w] + 1

\* C11: no insert into the pool blocks the inserter: whenever a thread is at a
\* put (create_pool's fill, the replenishment put, a release), the put can be
\* taken at once, whatever the pool holds; so create_pool never waits.
C11_NoInsertBlocks ==
    /\ mpc = "put" => ENABLED create_pool_put
    /\ \A w \in Workers :
         /\ pc[w] = "put_new" => ENABLED pool_put_new(w)
         /\ pc[w] = "hold" => ENABLED release(w)

\* the connections create_pool() has created
MainCreated == {c \in Created : c[1] = 0}

\* C12: create_pool fails fast: when self.connect() raises on the k-th
\* connection, create_pool has made k Factory calls, holds no connection, has
\* inserted the k-1 earlier ones, and takes no further step; when it returns
\* with pool_init_size <= POOL_HARD_LIMIT it has made pool_init_size Factory
\* calls which gave pool_init_size distinct connections, and, no worker having
\* touched the pool, the pool holds exactly those.
C12_FailFastFill ==
    /\ [](mpc = "raised" =>
            /\ mfcalls = mi + 1
            /\ mfcalls <= pool_init_size
            /\ mconn = None
            /\ Cardinality(MainCreated) = mi)
    /\ [][mpc = "raised" => UNCHANGED mvars]_vars
    /\ []((mpc = "done" /\ pool_init_size <= POOL_HARD_LIMIT) =>
            /\ mfcalls = pool_init_size
            /\ MainCreated = {<<0, k>> : k \in 1..pool_init_size}
            /\ calls = 0 => pool = [k \in 1..pool_init_size |-> <<0, k>>])

\* create_pool raised on its second connection, the first one is in the pool
C12_Witness ==
    /\ mpc = "raised"
    /\ mi = 1
    /\ pool = << <<0, 1>> >>

\* C13: the value execute_query and execute_query_multiplex return: with
\* return_one, None when cur.fetchall() gave no row and the first row
\* otherwise; without return_one, the whole result, same rows in the same order.
C13_Shape ==
    returned # NotReturned =>
        /\ (return_one /\ Len(res) = 0) => returned = NoneValue
        /\ (return_one /\ Len(res) > 0) => returned = RowValue(Head(res))
        /\ ~return_one =>
             /\ returned.kind = "rows"
             /\ Len(returned.rows) = Len(res)
             /\ \A i \in 1..Len(res) : returned.rows[i] = res[i]

\* execute_query returned one row of a result whose rows differ
C13_Witness ==
    /\ query_fn = "execute_query"
    /\ return_one
    /\ Len(res) = MaxRows
    /\ res[1] # res[Len(res)]
    /\ returned = RowValue(res[1])

\* C14: on a statement-class error execute_query_multiplex closes the cursor,
\* then calls pool_put_connection on the connection once, then raises: when
\* the release is about to run the cursor is closed, nothing has been released
\* and nothing raised; the release step puts this connection; when the error
\* has left the call, exactly one release has been made.
C14_ErrorOrdering ==
    /\ [](\A w \in Workers :
            /\ pc[w] = "mx_err_put" =>
                 /\ ~cursor_open[w]
                 /\ mx_puts[w] = 0
                 /\ mx_result[w] = "none"
            /\ (pc[w] = "mx_ret" /\ mx_result[w] = "statement_error") =>
                 /\ ~cursor_open[w]
                 /\ mx_puts[w] = 1)
    /\ [][\A w \in Workers :
            (pc[w] = "mx_err_put" /\ pc'[w] # "mx_err_put") =>
                /\ pool' = pool_put_connection(pool, conn[w])
                /\ mx_puts'[w] = 1
                /\ mx_result'[w] = "statement_error"]_vars

\* a statement-class error has left execute_query_multiplex, the connection is
\* in the pool
C14_Witness ==
    \E w \in Workers :
        /\ pc[w] = "mx_ret"
        /\ mx_result[w] = "statement_error"
        /\ mx_puts[w] = 1
        /\ conn[w] \in Range(pool)

\* C15: an error of another class in execute_query_multiplex reaches the
\* caller with no release and no close of the connection: the failing step
\* leaves the pool, the closed and the refused connections as they were, and
\* when the error has left the call the connection is in no pool slot, not
\* closed, held by the caller and by no other worker.
C15_OtherErrorNoRelease ==
    /\ [](\A w \in Workers :
            (pc[w] = "mx_ret" /\ mx_result[w] = "other_error") =>
                /\ mx_puts[w] = 0
                /\ conn[w] # None
                /\ conn[w] \notin Range(pool) \cup closed \cup dropped
                /\ Held(w)
                /\ \A v \in Workers \ {w} : ~(Held(v) /\ conn[v] = conn[w]))
    /\ [][\A w \in Workers :
            (pc[w] = "hold" /\ pc'[w] = "mx_ret") =>
                /\ mx_result'[w] = "other_error"
                /\ UNCHANGED <<pool, closed, dropped, conn>>]_vars

\* an error of another class has left execute_query_multiplex while the pool
\* holds other connections
C15_Witness ==
    \E w \in Workers :
        /\ pc[w] = "mx_ret"
        /\ mx_result[w] = "other_error"
        /\ pool # << >>

\* C16: inside one pool_get_connection(timeout, retry_num) call every
\* timed-out wait is followed by one self.connect(recreate=True) and, when that
\* gave a connection, one pool_put_connection of it, after which the call
\* holds nothing: it waits again if a retry is left and returns None
\* otherwise. So the Factory calls equal the timed-out waits, are at most
\* retry_num + 1, and a wait that finds a connection makes none.
C16_ReplenishPerTimeout ==
    /\ [](\A w \in Workers :
            /\ fcalls[w] <= retries0[w] + 1
            /\ pc[w] = "get" => (waits[w] = fcalls[w] /\ fcalls[w] <= retries0[w])
            /\ pc[w] = "connect" => waits[w] = fcalls[w] + 1
            /\ pc[w] = "put_new" => (waits[w] = fcalls[w] /\ conn[w] # None)
            /\ (pc[w] = "ret" /\ result[w] = "conn") => waits[w] = fcalls[w] + 1
            /\ (pc[w] = "ret" /\ result[w] = "exhausted") =>
                 /\ waits[w] = retries0[w] + 1
                 /\ fcalls[w] = retries0[w] + 1
                 /\ conn[w] = None)
    /\ [][\A w \in Workers :
            /\ (pc[w] = "get" /\ pc'[w] = "ret") =>
                 (fcalls'[w] = fcalls[w] /\ result'[w] = "conn")
            /\ (pc[w] = "connect" /\ pc'[w] # "connect") =>
                 /\ fcalls'[w] = fcalls[w] + 1
                 /\ pool' = pool
                 /\ pc'[w] = "put_new" \/ (pc'[w] = "ret" /\ result'[w] = "raised")
            /\ (pc[w] = "put_new" /\ pc'[w] # "put_new") =>
                 /\ pool' = pool_put_connection(pool, conn[w])
                 /\ conn'[w] = None
                 /\ fcalls'[w] = fcalls[w]
                 /\ waits'[w] = waits[w]
                 /\ IF retry_num[w] > 0
                      THEN pc'[w] = "get"
                      ELSE pc'[w] = "ret" /\ result'[w] = "exhausted"]_vars

\* a call with retry_num = MaxRetry has timed out MaxRetry + 1 times, created
\* and inserted a connection each time, and returns None
C16_Witness ==
    \E w \in Workers :
        /\ pc[w] = "ret"
        /\ result[w] = "exhausted"
        /\ retries0[w] = MaxRetry
        /\ fcalls[w] = MaxRetry + 1
        /\ puts[w] = MaxRetry + 1

\* C17: a cursor is open only inside the with block of execute_query or of
\* execute_query_multiplex: when either call has ended, by a result, by a
\* statement-class error or by another error, the cursor it opened is closed,
\* and a worker between calls has no open cursor.
C17_CursorClosed ==
    \A w \in Workers :
        /\ cursor_open[w] => pc[w] \in {"eq_with", "mx_put", "mx_exit"}
        /\ pc[w] \in {"eq_ret", "mx_ret", "hold", "idle"} => ~cursor_open[w]

\* execute_query has ended with an error and its cursor is closed
C17_Witness ==
    \E w \in Workers :
        /\ pc[w] = "eq_ret"
        /\ eq_result[w] = "other_error"
        /\ ~cursor_open[w]

\* C18: the pool never holds the same connection twice, the workers handing
\* each borrowed connection back at most once (pool_put_connection or
\* execute_query_multiplex); one execute_query_multiplex call makes at most
\* one pool_put_connection call, and a new connection of pool_get_connection
\* is put once (the call holds nothing after the put).
C18_NoDuplicates ==
    /\ \A i, j \in 1..Len(pool) : i # j => pool[i] # pool[j]
    /\ \A w \in Workers :
         /\ mx_puts[w] <= 1
         /\ pc[w] \in {"get", "connect"} => conn[w] = None

\* execute_query_multiplex has put its connection back next to another one
C18_Witness ==
    /\ Len(pool) = POOL_HARD_LIMIT
    /\ \E w \in Workers :
         /\ pc[w] = "mx_ret"
         /\ mx_result[w] = "ok"
         /\ conn[w] \in Range(pool)

\* C19: the pool is first-in first-out: every step that changes the pool
\* either appends one connection behind all those already there (a release, a
\* new connection of pool_get_connection, create_pool's fill) or takes the
\* connection at the head, the one inserted earliest, and gives it to the
\* worker whose get returns. So of two connections in the pool the one
\* inserted first is handed out first.
C19_Fifo ==
    [][\/ pool' = pool
       \/ \E c \in Created' : pool' = Append(pool, c)
       \/ /\ pool # << >>
          /\ pool' = Tail(pool)
          /\ \E w \in Workers :
               /\ pc[w] = "get"
               /\ pc'[w] = "ret"
               /\ result'[w] = "conn"
               /\ conn'[w] = Head(pool)]_vars

\* a worker's get has returned a connection of create_pool while the new
\* connection a pool_get_connection call put behind it is still in the pool
C19_Witness ==
    \E w \in Workers :
        /\ pc[w] = "ret"
        /\ result[w] = "conn"
        /\ conn[w][1] = 0
        /\ pool # << >>
        /\ pool[1][1] # 0

====
